---- MODULE Spec2Model ----
(***************************************************************************)
(* A model of streamlit_app.py: the cached fetch_and_analyze_news pipeline *)
(* and the Streamlit script that calls it.                                 *)
(*                                                                         *)
(* One script run (a page load or any widget interaction) is one atomic    *)
(* step.  The GNews response and the TextBlob polarity of each article are *)
(* inputs chosen by the environment.  Polarities are integers in units of  *)
(* 1e-4 (0.1 is 1000); emitted sentiment scores are integers in units of   *)
(* 1e-3, which is what round(polarity, 3) keeps.                           *)
(***************************************************************************)
EXTENDS Integers, Sequences, FiniteSets, TLC

VARIABLES
    secret,     \* st.secrets["GNEWS_API_KEY"], "" when not provisioned
    clock,      \* wall-clock seconds
    ticks,      \* number of clock advances so far (bounds the clock)
    cache,      \* st.cache_data store of fetch_and_analyze_news
    requests,   \* number of GETs issued so far
    fetched,    \* history: per (api_key, query), the last call that issued a GET
    run         \* what the most recent script run did and displayed

vars == <<secret, clock, ticks, cache, requests, fetched, run>>

----------------------------------------------------------------------------
(* Bounds of the model *)

MaxArticles == 4
MaxTicks == 2
MaxRequests == 2
MaxPolarity == 10000

(* Program constants *)

\* @st.cache_data(ttl=600)
ttl == 600

\* the 0.1 of "polarity > 0.1" and "polarity < -0.1", in units of 1e-4
Threshold == 1000

----------------------------------------------------------------------------
(* Values *)

\* dict.get finds no such key
Missing == "<missing>"

Labels == {"Positive", "Negative", "Neutral"}

\* what the secret store may hold, and what the user may type
Secrets == {"", "k1"}
TypedKeys == {"", "k2", "k3"}
Queries == {"", "ai"}
\* the arguments fetch_and_analyze_news can be called with
CallArgs == (Secrets \cup TypedKeys) \X Queries

\* one element of data["articles"]; pol is TextBlob(text).sentiment.polarity
\* of its "title description" text
Article(title, source, pol) == [title |-> title, source |-> source, pol |-> pol]

\* a response of requests.get: kind "ok" is a 2xx JSON body, the other kinds
\* are the exception requests.get / raise_for_status raised
OkResponse(present, articles) ==
    [kind |-> "ok", msg |-> "", present |-> present, articles |-> articles]
ErrorResponse(kind, msg) ==
    [kind |-> kind, msg |-> msg, present |-> FALSE, articles |-> <<>>]
NoResponse == ErrorResponse("none", "")

Diag(level, text, detail) == [level |-> level, text |-> text, detail |-> detail]

----------------------------------------------------------------------------
(* fetch_and_analyze_news *)

\* except requests.exceptions.RequestException
CaughtMutOnlyConnection(kind) == kind = "ConnectionError"
Caught(kind) == kind \in {"ConnectionError", "HTTPError", "Timeout"}

\* article.get("title", "")
TitleOf(article) == IF article.title = Missing THEN "" ELSE article.title

\* article.get("source", {}).get("name", "Unknown")
SourceOf(article) == IF article.source = Missing THEN "Unknown" ELSE article.source

\* if not title: continue
SkipMutNever(title) == FALSE
Skip(title) == title = ""

\* the if / elif / else on polarity
SentimentMutInclusive(polarity) ==
    IF polarity >= Threshold THEN "Positive"
    ELSE IF polarity <= -Threshold THEN "Negative"
    ELSE "Neutral"
Sentiment(polarity) ==
    IF polarity > Threshold THEN "Positive"
    ELSE IF polarity < -Threshold THEN "Negative"
    ELSE "Neutral"

\* round(polarity, 3), from units of 1e-4 to units of 1e-3: the nearest
\* multiple of 1e-3, and an exact tie to the even one (Python rounds the
\* float's exact value half to even)
RoundMutTruncate(polarity) == polarity \div 10
Round3(polarity) ==
    LET q == polarity \div 10
        r == polarity % 10
    IN  IF r < 5 THEN q
        ELSE IF r > 5 THEN q + 1
        ELSE IF q % 2 = 0 THEN q ELSE q + 1

\* the dict appended to analyzed_articles
Row(article) ==
    [title |-> TitleOf(article),
     source |-> SourceOf(article),
     sentiment_score |-> Round3(article.pol),
     sentiment_label |-> Sentiment(article.pol)]

\* the for loop over articles, from position i with analyzed_articles = acc
RECURSIVE AnalyzeFrom(_, _, _)
AnalyzeFrom(articles, i, acc) ==
    IF i > Len(articles) THEN acc
    ELSE IF Skip(TitleOf(articles[i])) THEN AnalyzeFrom(articles, i + 1, acc)
    ELSE AnalyzeFrom(articles, i + 1, Append(acc, Row(articles[i])))

WarnNoArticles == Diag("warning", "No articles found for this query.", "")
ErrorFetching(msg) == Diag("error", "Error fetching news: ", msg)

\* the body of fetch_and_analyze_news on the response its GET got:
\* the DataFrame returned, the st elements it showed, whether it raised
FetchBody(resp) ==
    IF resp.kind = "ok"
    THEN LET articles == IF resp.present THEN resp.articles ELSE <<>>
         IN  IF articles = <<>>
             THEN [raised |-> FALSE, df |-> <<>>, msgs |-> <<WarnNoArticles>>]
             ELSE [raised |-> FALSE, df |-> AnalyzeFrom(articles, 1, <<>>),
                   msgs |-> <<>>]
    ELSE IF Caught(resp.kind)
    THEN [raised |-> FALSE, df |-> <<>>, msgs |-> <<ErrorFetching(resp.msg)>>]
    ELSE [raised |-> TRUE, df |-> <<>>, msgs |-> <<>>]

----------------------------------------------------------------------------
(* @st.cache_data(ttl=600) *)

NoEntry == [valid |-> FALSE, created |-> 0, df |-> <<>>, msgs |-> <<>>]

\* an entry keeps the returned DataFrame and the st elements the function
\* showed, which a served call shows again; it is served while it is younger
\* than ttl seconds, counted from the call that stored it
FreshMutInclusive(entry, now) == entry.valid /\ now - entry.created <= ttl
Fresh(entry, now) == entry.valid /\ now - entry.created < ttl

\* the value the function returned and the elements it showed are kept,
\* whatever the value
StoreMutSkipEmpty(df, msgs, now) ==
    IF df = <<>> THEN NoEntry
    ELSE [valid |-> TRUE, created |-> now, df |-> df, msgs |-> msgs]
Store(df, msgs, now) == [valid |-> TRUE, created |-> now, df |-> df, msgs |-> msgs]

----------------------------------------------------------------------------
(* The script below the function *)

\* df["sentiment_label"].value_counts(): the labels present, each with its count
RECURSIVE ValueCountsFrom(_, _, _)
ValueCountsFrom(df, i, counts) ==
    IF i > Len(df) THEN counts
    ELSE LET l == df[i].sentiment_label
         IN  ValueCountsFrom(df, i + 1,
                 IF l \in DOMAIN counts
                 THEN [counts EXCEPT ![l] = @ + 1]
                 ELSE counts @@ (l :> 1))

ValueCountsMutPresence(df) ==
    [l \in {df[i].sentiment_label : i \in 1..Len(df)} |-> 1]
ValueCounts(df) == ValueCountsFrom(df, 1, [l \in {} |-> 0])

\* sentiment_counts.get(label, 0)
CountGet(counts, label) == IF label \in DOMAIN counts THEN counts[label] ELSE 0

NoMetrics == [total |-> 0, positive |-> 0, negative |-> 0]

InfoPrompt ==
    Diag("info", "Enter your GNews API key and a topic, then click to begin.", "")
SuccessMsg == Diag("success", "Successfully analyzed articles", "")
ErrorEmpty ==
    Diag("error", "Could not retrieve or analyze news. Check your API key or query.", "")

\* api_key_secret: the secret, or else the text input
ApiKey(typed) == IF secret # "" THEN secret ELSE typed

\* if refresh_button and api_key_secret
TriggeredMutNoKeyCheck(clicked, api_key) == clicked
Triggered(clicked, api_key) == clicked /\ api_key # ""

\* the else branch of the script: the button was not clicked or there is no key
IdleRun(clicked, api_key) ==
    [clicked |-> clicked, api_key |-> api_key, query |-> "", time |-> 0,
     called |-> FALSE, hit |-> FALSE, issued |-> 0, resp |-> NoResponse,
     uncaught |-> FALSE, df |-> <<>>, shown |-> <<InfoPrompt>>,
     metrics |-> NoMetrics, chart |-> [l \in {} |-> 0], table |-> <<>>]

\* the if branch of the script, after fetch_and_analyze_news returned out
\* (out.msgs are the elements the function showed, or the cache replayed)
TriggeredRun(clicked, api_key, query, now, hit, resp, out) ==
    LET sentiment_counts == ValueCounts(out.df)
        base == [clicked |-> clicked, api_key |-> api_key, query |-> query,
                 time |-> now, called |-> TRUE, hit |-> hit,
                 issued |-> IF hit THEN 0 ELSE 1, resp |-> resp,
                 uncaught |-> out.raised, df |-> out.df, shown |-> out.msgs,
                 metrics |-> NoMetrics, chart |-> [l \in {} |-> 0],
                 table |-> <<>>]
    IN  IF out.raised THEN base
        ELSE IF out.df # <<>>
        THEN [base EXCEPT
                 !.shown = out.msgs \o <<SuccessMsg>>,
                 !.metrics = [total |-> Len(out.df),
                              positive |-> CountGet(sentiment_counts, "Positive"),
                              negative |-> CountGet(sentiment_counts, "Negative")],
                 !.chart = sentiment_counts,
                 !.table = out.df]
        ELSE [base EXCEPT !.shown = out.msgs \o <<ErrorEmpty>>]

----------------------------------------------------------------------------
(* Initial state: the server has started and the page has loaded once *)

NoFetch == [fetched |-> FALSE, time |-> 0, df |-> <<>>, kind |-> "none"]

Init ==
    /\ secret \in Secrets
    /\ clock = 0
    /\ ticks = 0
    /\ cache = [a \in CallArgs |-> NoEntry]
    /\ requests = 0
    /\ fetched = [a \in CallArgs |-> NoFetch]
    /\ run = IdleRun(FALSE, IF secret # "" THEN secret ELSE "")

----------------------------------------------------------------------------
(* Actions *)

\* time passes
Tick(d) ==
    /\ ticks < MaxTicks
    /\ ticks' = ticks + 1
    /\ clock' = clock + d
    /\ UNCHANGED <<secret, cache, requests, fetched, run>>

\* a script run that does not reach the call: no click, or no key
RunIdle(clicked, typed) ==
    /\ ~Triggered(clicked, ApiKey(typed))
    /\ run' = IdleRun(clicked, ApiKey(typed))
    /\ UNCHANGED <<secret, clock, ticks, cache, requests, fetched>>

\* a click whose call is served from the cache
RunHit(clicked, typed, query) ==
    LET api_key == ApiKey(typed)
        args == <<api_key, query>>
    IN  /\ Triggered(clicked, api_key)
        /\ Fresh(cache[args], clock)
        /\ LET out == [raised |-> FALSE, df |-> cache[args].df,
                       msgs |-> cache[args].msgs]
           IN  run' = TriggeredRun(clicked, api_key, query, clock, TRUE,
                                   NoResponse, out)
        /\ UNCHANGED <<secret, clock, ticks, cache, requests, fetched>>

\* a click whose call runs the function body: one GET, answered by one of
\* responses
RunMiss(clicked, typed, query, responses) ==
    LET api_key == ApiKey(typed)
        args == <<api_key, query>>
    IN  /\ Triggered(clicked, api_key)
        /\ ~Fresh(cache[args], clock)
        /\ requests < MaxRequests
        /\ requests' = requests + 1
        /\ \E resp \in responses :
              LET out == FetchBody(resp)
              IN  /\ run' = TriggeredRun(clicked, api_key, query, clock, FALSE,
                                         resp, out)
                  /\ cache' = IF out.raised THEN cache
                              ELSE [cache EXCEPT ![args] =
                                       Store(out.df, out.msgs, clock)]
                  /\ fetched' = [fetched EXCEPT ![args] =
                                    [fetched |-> TRUE, time |-> clock,
                                     df |-> out.df, kind |-> resp.kind]]
        /\ UNCHANGED <<secret, clock, ticks>>

----------------------------------------------------------------------------
(* Inputs *)

\* the clock advances by a second or by a second less than the ttl
TickSteps == {1, ttl - 1}

ConnectionFailure == ErrorResponse("ConnectionError", "connection refused")
HttpFailure == ErrorResponse("HTTPError", "401 Client Error: Unauthorized")
Failures == {ConnectionFailure.kind, HttpFailure.kind}

\* the responses of the dashboard specification: a transport failure, an
\* empty list, and a list with one untitled and one titled article
Responses ==
    { ConnectionFailure,
      OkResponse(TRUE, <<>>),
      OkResponse(TRUE, <<Article("", "s", 0), Article("b", Missing, -2500)>>) }

\* the articles of the pipeline specification: no title, an empty title, and
\* titled articles of each sentiment, on and next to the threshold
PipelineArticles ==
    { Article(Missing, "s", 0), Article("", Missing, 0),
      Article("a", "s", 3000), Article("b", Missing, -2500),
      Article("c", "s", Threshold), Article("d", "s", Threshold + 4) }

SeqsUpTo(S, n) == UNION {[1..k -> S] : k \in 0..n}

\* the responses of the pipeline specification: both transport failures, a
\* body without "articles", and every list of up to MaxArticles articles
PipelineResponses ==
    {ConnectionFailure, HttpFailure, OkResponse(FALSE, <<>>)}
        \cup {OkResponse(TRUE, s) : s \in SeqsUpTo(PipelineArticles, MaxArticles)}

\* the responses of the label specification: one titled article of every
\* polarity from -MaxPolarity to MaxPolarity
LabelResponses ==
    {OkResponse(TRUE, <<Article("a", "s", p)>>) : p \in -MaxPolarity..MaxPolarity}

----------------------------------------------------------------------------
(* Specifications *)

\* the dashboard over time: every key and query, the cache and the clock
Next ==
    \/ \E d \in TickSteps : Tick(d)
    \/ \E clicked \in BOOLEAN, typed \in TypedKeys : RunIdle(clicked, typed)
    \/ \E clicked \in BOOLEAN, typed \in TypedKeys, query \in Queries :
          RunHit(clicked, typed, query)
    \/ \E clicked \in BOOLEAN, typed \in TypedKeys, query \in Queries :
          RunMiss(clicked, typed, query, Responses)

Spec == Init /\ [][Next]_vars

\* the pipeline on every response, for one topic
NextPipeline ==
    \/ \E clicked \in BOOLEAN, typed \in {"", "k2"} : RunIdle(clicked, typed)
    \/ \E clicked \in BOOLEAN, typed \in {"", "k2"} : RunHit(clicked, typed, "ai")
    \/ \E clicked \in BOOLEAN, typed \in {"", "k2"} :
          RunMiss(clicked, typed, "ai", PipelineResponses)

SpecPipeline == Init /\ [][NextPipeline]_vars

\* the classification of one article, for every polarity
NextLabel ==
    \/ \E clicked \in BOOLEAN, typed \in {"", "k2"} : RunIdle(clicked, typed)
    \/ \E clicked \in BOOLEAN, typed \in {"", "k2"} : RunHit(clicked, typed, "ai")
    \/ \E clicked \in BOOLEAN, typed \in {"", "k2"} :
          RunMiss(clicked, typed, "ai", LabelResponses)

SpecLabel == Init /\ [][NextLabel]_vars

----------------------------------------------------------------------------
(* Properties *)

\* the most recent script run issued a GET that was answered with a 2xx body
LastFetchOk == run.issued = 1 /\ run.resp.kind = "ok"

\* the most recent script run issued a GET that failed at transport level
LastFetchFailed == run.issued = 1 /\ run.resp.kind \in Failures

\* data.get("articles", []) of that body
RawArticles == IF run.resp.present THEN run.resp.articles ELSE <<>>

HasTitle(article) == article.title # Missing /\ article.title # ""

\* the raw articles with a title, in response order
Kept == SelectSeq(RawArticles, HasTitle)

\* the arguments of the call of the most recent script run
RunArgs == <<run.api_key, run.query>>

Levels(shown) == {shown[i].level : i \in 1..Len(shown)}
Shown(shown) == {shown[i] : i \in 1..Len(shown)}

\* the label boundary 0.1 in the unit of the emitted score (1e-3)
ScoreThreshold == Threshold \div 10

NumLabelled(df, l) == Cardinality({i \in 1..Len(df) : df[i].sentiment_label = l})

\* a click of the fetch button, with any key and topic
Click ==
    \E typed \in TypedKeys, query \in Queries :
        RunHit(TRUE, typed, query) \/ RunMiss(TRUE, typed, query, Responses)

\* C1: every article is given exactly one label, decided by its polarity p as
\* the scorer returned it: Positive iff p > 0.1, Negative iff p < -0.1,
\* Neutral iff -0.1 <= p <= 0.1 (so 0.1 and -0.1 are Neutral).
C1_LabelByPolarity ==
    LastFetchOk =>
        /\ Len(run.df) = Len(Kept)
        /\ \A i \in 1..Len(run.df) :
              LET p == Kept[i].pol
                  label == run.df[i].sentiment_label
              IN  /\ label \in Labels
                  /\ (label = "Positive") <=> (p > Threshold)
                  /\ (label = "Negative") <=> (p < -Threshold)
                  /\ (label = "Neutral") <=> (-Threshold <= p /\ p <= Threshold)

\* C1 witness: articles of polarity exactly 0.1 and exactly -0.1 were labelled
C1_Witness ==
    /\ LastFetchOk
    /\ Len(run.df) = 1
    /\ Kept[1].pol \in {Threshold, -Threshold}
    /\ run.df[1].sentiment_label = "Neutral"

\* C2 as stated: the emitted label agrees with the emitted (rounded) score:
\* Positive iff score > 0.1, Negative iff score < -0.1, Neutral otherwise.
C2_LabelAgreesWithScore ==
    \A i \in 1..Len(run.df) :
        LET score == run.df[i].sentiment_score
            label == run.df[i].sentiment_label
        IN  /\ (label = "Positive") <=> (score > ScoreThreshold)
            /\ (label = "Negative") <=> (score < -ScoreThreshold)
            /\ (label = "Neutral") <=>
                   (-ScoreThreshold <= score /\ score <= ScoreThreshold)

\* C2 amended: the label is bucketed from the polarity as returned, not from
\* the rounded score.  The emitted score is the polarity rounded to 3 places,
\* and it agrees with the label one way only: a score above 0.1 is Positive,
\* a score below -0.1 is Negative, a Neutral label has a score in [-0.1, 0.1].
C2_LabelFromUnroundedPolarity ==
    LastFetchOk =>
        \A i \in 1..Len(run.df) :
            LET p == Kept[i].pol
                score == run.df[i].sentiment_score
                label == run.df[i].sentiment_label
            IN  /\ 10 * score - p \in -5..5
                /\ (p > Threshold) => label = "Positive"
                /\ (p < -Threshold) => label = "Negative"
                /\ (score > ScoreThreshold) => label = "Positive"
                /\ (score < -ScoreThreshold) => label = "Negative"
                /\ (label = "Neutral") =>
                       (-ScoreThreshold <= score /\ score <= ScoreThreshold)

\* C2 witness: a polarity of 0.1004 was emitted with score 0.1 and labelled
\* Positive
C2_Witness ==
    /\ LastFetchOk
    /\ Len(run.df) = 1
    /\ Kept[1].pol = Threshold + 4
    /\ run.df[1].sentiment_score = ScoreThreshold
    /\ run.df[1].sentiment_label = "Positive"

\* C3: the ResultSet is the subsequence of the raw articles that have a
\* non-empty title, in response order: nothing untitled in it, nothing titled
\* dropped or moved.
C3_TitledSubsequence ==
    LastFetchOk =>
        /\ Len(run.df) = Cardinality({i \in 1..Len(RawArticles) :
                                         HasTitle(RawArticles[i])})
        /\ Len(run.df) = Len(Kept)
        /\ \A i \in 1..Len(run.df) :
              /\ run.df[i].title = Kept[i].title
              /\ run.df[i].title # ""
              /\ run.df[i].source \in {Kept[i].source, "Unknown"}
              /\ run.df[i].sentiment_label = Sentiment(Kept[i].pol)

\* C3 witness: two different titled articles around an untitled one came out
\* as two rows in their order
C3_Witness ==
    /\ LastFetchOk
    /\ Len(RawArticles) = 3
    /\ HasTitle(RawArticles[1])
    /\ ~HasTitle(RawArticles[2])
    /\ HasTitle(RawArticles[3])
    /\ RawArticles[1].title # RawArticles[3].title
    /\ Len(run.df) = 2
    /\ run.df[1].title = RawArticles[1].title
    /\ run.df[2].title = RawArticles[3].title

\* C4 as stated, for the earlier call being the preceding script run: a call
\* with the same (credential, query) as a call made less than 600 seconds
\* before issues no request and returns that call's ResultSet.
C4_WithinWindowOfAnyCall ==
    [][ ( /\ clock' = clock
          /\ run.called
          /\ run'.called
          /\ <<run'.api_key, run'.query>> = RunArgs
          /\ clock - run.time < ttl )
        => (requests' = requests /\ run'.df = run.df) ]_vars

\* C4 amended: the window runs from the call that issued the request.  A call
\* with the same (credential, query) as an earlier call that issued a request
\* less than 600 seconds before issues none and returns that call's
\* ResultSet; any other call (no request yet for its pair, or the last one
\* 600 seconds or more ago) issues exactly one new request.
C4_WithinWindowOfRequest ==
    [][ (clock' = clock /\ run'.called) =>
          LET last == fetched[<<run'.api_key, run'.query>>]
          IN  IF last.fetched /\ clock - last.time < ttl
              THEN requests' = requests /\ run'.hit /\ run'.df = last.df
              ELSE requests' = requests + 1 /\ ~run'.hit ]_vars

\* C4 witness: a call was served from the cache in the last second of the
\* window, after another pair had been requested anew
C4_Witness ==
    /\ run.called
    /\ run.hit
    /\ run.df # <<>>
    /\ run.time - fetched[RunArgs].time = ttl - 1
    /\ requests = 2

\* C5: a transport failure of the run's GET is the run's only request, shows
\* an error with the underlying message, gives an empty ResultSet, and leaves
\* the program accepting a later click.
C5_TransportFailure ==
    /\ [](LastFetchFailed =>
            /\ ~run.uncaught
            /\ run.df = <<>>
            /\ ErrorFetching(run.resp.msg) \in Shown(run.shown)
            /\ run.resp.msg # ""
            /\ ENABLED Click)
    /\ [][ (run' # run /\ run'.issued = 1 /\ run'.resp.kind \in Failures)
           => requests' = requests + 1 ]_vars

\* C5 witness: a GET answered by an HTTP error status has been handled
C5_Witness ==
    /\ LastFetchFailed
    /\ run.resp.kind = "HTTPError"
    /\ run.df = <<>>
    /\ requests = 1

\* C6: a 2xx body whose "articles" is absent or empty gives an empty
\* ResultSet, shows the "no results" warning and shows no error.
C6_EmptyListWarnsOnly ==
    (LastFetchOk /\ RawArticles = <<>>) =>
        /\ run.df = <<>>
        /\ WarnNoArticles \in Shown(run.shown)
        /\ "error" \notin Levels(run.shown)

\* C7: a 2xx body whose articles all lack a title gives an empty ResultSet and
\* shows the same warning as an empty list, not an error.
C7_AllUntitledWarns ==
    (LastFetchOk /\ RawArticles # <<>> /\ Kept = <<>>) =>
        /\ run.df = <<>>
        /\ WarnNoArticles \in Shown(run.shown)
        /\ "error" \notin Levels(run.shown)

\* C8: for a non-empty ResultSet the total shown is its length, the count
\* shown for each label is the number of rows with that label (zero when
\* there is none), and the three counts add up to the total.
C8_Aggregation ==
    run.df # <<>> =>
        /\ run.metrics.total = Len(run.df)
        /\ run.metrics.positive = NumLabelled(run.df, "Positive")
        /\ run.metrics.negative = NumLabelled(run.df, "Negative")
        /\ DOMAIN run.chart \subseteq Labels
        /\ \A l \in Labels : CountGet(run.chart, l) = NumLabelled(run.df, l)
        /\ \A l \in DOMAIN run.chart : run.chart[l] > 0
        /\ run.metrics.positive + run.metrics.negative
               + CountGet(run.chart, "Neutral") = run.metrics.total

\* C8 witness: labels Positive, Positive, Neutral, Negative were shown as
\* Positive 2, Neutral 1, Negative 1, total 4
C8_Witness ==
    /\ Len(run.df) = 4
    /\ run.df[1].sentiment_label = "Positive"
    /\ run.df[2].sentiment_label = "Positive"
    /\ run.df[3].sentiment_label = "Neutral"
    /\ run.df[4].sentiment_label = "Negative"
    /\ run.metrics = [total |-> 4, positive |-> 2, negative |-> 1]
    /\ run.chart["Neutral"] = 1

\* C9: a failed or empty run is memoized like a successful one: while the
\* request of such a run is less than 600 seconds old, a click with the same
\* (credential, query) issues no request and gives the empty ResultSet again;
\* a new request for a pair is issued only when that pair has no request less
\* than 600 seconds old.
C9_EmptyRunsMemoized ==
    [][ /\ ( /\ clock' = clock
             /\ run'.called
             /\ LET last == fetched[<<run'.api_key, run'.query>>]
                IN  /\ last.fetched
                    /\ last.kind \in Failures \/ last.df = <<>>
                    /\ clock - last.time < ttl )
           => (requests' = requests /\ run'.issued = 0 /\ run'.df = <<>>)
        /\ (requests' # requests) =>
              LET last == fetched[<<run'.api_key, run'.query>>]
              IN  ~(last.fetched /\ clock - last.time < ttl) ]_vars

\* C9 witness: a click after a transport failure, later within its window,
\* was answered without a request
C9_Witness ==
    /\ run.called
    /\ run.hit
    /\ run.df = <<>>
    /\ fetched[RunArgs].kind \in Failures
    /\ run.time > fetched[RunArgs].time
    /\ requests = 1

\* C10: a script run without a click or without a credential does not call
\* fetch_and_analyze_news, issues no request, leaves the cache as it is and
\* shows only the prompt; a request is issued only by a click with a
\* credential, and at most one per script run.
C10_RequestOnlyOnTrigger ==
    [][ /\ (~run'.clicked \/ run'.api_key = "") =>
              /\ ~run'.called
              /\ requests' = requests
              /\ cache' = cache
              /\ run'.shown = <<InfoPrompt>>
        /\ (requests' # requests) =>
              /\ run'.clicked
              /\ run'.api_key # ""
              /\ requests' = requests + 1 ]_vars

\* C10 witness: after a request had filled the cache, a click without a
\* credential showed only the prompt
C10_Witness ==
    /\ run.clicked
    /\ run.api_key = ""
    /\ ~run.called
    /\ run.shown = <<InfoPrompt>>
    /\ requests >= 1

====
